---- MODULE Spec2Model ----
(***************************************************************************)
(* Model of the data-structure visualizer: the Python-side binary search   *)
(* tree of bst_ui.py, the Python-side edge list of graph_ui.py and the     *)
(* Python-side linked list of linkedlist_ui.py, with one action per        *)
(* handler of BSTVisualizer, GraphVisualizer and LinkedListVisualizer.     *)
(*                                                                         *)
(* A BSTNode reference is modelled by the subtree it owns: None is the     *)
(* empty tuple and a node is <<data, left, right>>.  The tree has no       *)
(* back-links and self.root is its only entry point, so the in-place       *)
(* updates of insert_python and delete_python are the value they return.   *)
(* The ListNode objects of the linked list are kept as a heap: a node is   *)
(* an identity in 1..MaxNodes, None is 0, and nodes maps every node that   *)
(* self.head reaches to its data and next fields.                          *)
(* The calls into dshelp.dll act on the C-side copy only and are left out. *)
(***************************************************************************)
EXTENDS Integers, Sequences, FiniteSets

\* Bounds of the model.
MaxValue == 4       \* the value entry holds an integer in 0..MaxValue
MaxVertices == 2    \* create_graph is asked for at most MaxVertices vertices
MaxEdges == 2       \* add_edge appends while fewer than MaxEdges edges are stored

Values == 0..MaxValue
\* The weight entry: weights are stored and compared for equality only, so two
\* distinct ones are drawn (1 is what an empty entry stands for).
Weights == {1, 5}
VertexInputs == (0 - 1)..MaxVertices
CountInputs == (0 - 1)..MaxVertices

\* Bounds of the graphs the traversals are run on.
TravVertices == 3   \* those graphs have at most TravVertices vertices
\* The weight entry when those graphs were built: one add_edge call per
\* weight at most, the i-th edge added getting the i-th weight (the
\* traversals never read a weight).
TravWeights == <<5, 3, 1>>

\* The canvas sizes winfo_width and winfo_height report: the size before the
\* window is mapped, and the sizes the window is resized to.
UnmappedSize == <<1, 1>>
Sizes == {<<4, 4>>, <<1000, 600>>}
\* The size the graph canvas was constructed with, which winfo_reqwidth and
\* winfo_reqheight report.
ReqWidth == 1000
ReqHeight == 600

\* Bound of the graphs the traversals are stepped through.
StepVertices == 2

\* Bound of the linked list.
MaxNodes == 3       \* insert_at_head runs while fewer than MaxNodes nodes are linked
\* The value entry of the linked-list tab.
ListValues == {1, 2, 3}

VARIABLES
    root,           \* BSTVisualizer.root
    bst_op,         \* last BST handler run: [name, value, status]
    bst_pre,        \* self.root when that handler started
    bst_out,        \* the result list the last handler built (<<>> when it built none)
    bst_count,      \* the count the last handler computed (0 when it computed none)
    bst_found,      \* what search_python returned to the last handler (FALSE when not called)
    bst_ins,        \* values inserted since the tree was last empty by clear/construction
    bst_ins_only,   \* no delete_node ran since then
    bst_chain,      \* <<T>> when the last two handlers were insert_node(v) on T
                    \* and then delete_node(v); <<>> otherwise
    num_vertices,   \* GraphVisualizer.num_vertices
    edges,          \* GraphVisualizer.edges, a list of <<src, dest, weight>>
    g_op,           \* last graph handler run: [name, src, dest, weight, status]
    g_pre,          \* [num_vertices, edges] when that handler started
    g_chain,        \* <<E>> when the last two handlers were a successful
                    \* add_edge(src, dest, w) on edge list E and then a
                    \* successful remove_edge(src, dest); <<>> otherwise
    traversal_path, \* GraphVisualizer.traversal_path
    head,           \* LinkedListVisualizer.head: a node identity, 0 for None
    nodes,          \* the ListNode objects head reaches: identity -> [data, next]
    count_label,    \* the number shown by count_label
    ll_op,          \* last linked-list handler run: [name, value, status]
    ll_pre,         \* [head, nodes] when that handler started
    ll_out,         \* what that handler reported: <<deleted_value>>,
                    \* <<position>> of a found value, <<count>>, the
                    \* reversed_values; <<>> when it reported nothing
    bst_canvas,     \* the items on BSTVisualizer.canvas, in drawing order
    bst_calls,      \* the draw_tree calls of the last refresh_view of the BST
                    \* tab: their x, y, x_offset, y_offset and depth
    ll_canvas,      \* the items on LinkedListVisualizer.canvas
    g_canvas,       \* the items on GraphVisualizer.canvas
    _redraw_pending,\* GraphVisualizer._redraw_pending
    run,            \* the locals of the traversal handler that is running
    after_queue,    \* the number of _delayed_redraw callbacks canvas.after holds
    canvas_size,    \* <<winfo_width(), winfo_height()>> of the tab canvases
    redraw          \* [tab, again]: the last step was a refresh_view call on
                    \* that tab by itself (tab "" otherwise), and so was the
                    \* step before it

bst_vars == <<root, bst_op, bst_pre, bst_out, bst_count, bst_found,
              bst_ins, bst_ins_only, bst_chain, bst_canvas, bst_calls>>
graph_vars == <<num_vertices, edges, g_op, g_pre, g_chain, traversal_path,
                g_canvas, _redraw_pending, after_queue, run>>
list_vars == <<head, nodes, count_label, ll_op, ll_pre, ll_out, ll_canvas>>
window_vars == <<canvas_size, redraw>>
vars == <<bst_vars, graph_vars, list_vars, window_vars>>

NoRedraw == [tab |-> "", again |-> FALSE]
\* a handler leaves the window size alone and is not a refresh_view by itself
SameWindow ==
    /\ UNCHANGED canvas_size
    /\ redraw' = NoRedraw

-----------------------------------------------------------------------------
\* BSTNode

None == <<>>
BSTNode(d, l, r) == <<d, l, r>>
data(node) == node[1]
left(node) == node[2]
right(node) == node[3]

RECURSIVE insert_python(_, _)
RECURSIVE delete_python(_, _)
RECURSIVE find_min(_)
RECURSIVE search_python(_, _)
RECURSIVE _preorder_python(_, _)
RECURSIVE _inorder_python(_, _)
RECURSIVE _postorder_python(_, _)
RECURSIVE _count_nodes_python(_)
RECURSIVE _count_one_child_python(_)
RECURSIVE _count_two_children_python(_)

RECURSIVE insert_python_flip(_, _)
RECURSIVE insert_python_dup(_, _)
RECURSIVE delete_python_nosucc(_, _)
RECURSIVE delete_python_nogt(_, _)
RECURSIVE _inorder_python_rootfirst(_, _)
RECURSIVE _postorder_python_rightfirst(_, _)
RECURSIVE _count_one_child_python_any(_)

\* Variants of the operators below, each changed the way a slip in the code
\* would change it; the properties are checked to tell them apart.

\* insert_python descending to the wrong side for larger values
insert_python_flip(node, value) ==
    IF node = None THEN BSTNode(value, None, None)
    ELSE IF value < data(node)
         THEN BSTNode(data(node), insert_python_flip(left(node), value), right(node))
    ELSE IF value > data(node)
         THEN BSTNode(data(node), insert_python_flip(left(node), value), right(node))
    ELSE node

\* insert_python with "elif value >= node.data"
insert_python_dup(node, value) ==
    IF node = None THEN BSTNode(value, None, None)
    ELSE IF value < data(node)
         THEN BSTNode(data(node), insert_python_dup(left(node), value), right(node))
    ELSE BSTNode(data(node), left(node), insert_python_dup(right(node), value))

\* delete_python without the two-children case: "else: return node.left"
delete_python_nosucc(node, value) ==
    IF node = None THEN None
    ELSE IF value < data(node)
         THEN BSTNode(data(node), delete_python_nosucc(left(node), value), right(node))
    ELSE IF value > data(node)
         THEN BSTNode(data(node), left(node), delete_python_nosucc(right(node), value))
    ELSE IF left(node) = None THEN right(node)
    ELSE left(node)

\* delete_python with the second comparison dropped: "if value < node.data ... else: found"
delete_python_nogt(node, value) ==
    IF node = None THEN None
    ELSE IF value < data(node)
         THEN BSTNode(data(node), delete_python_nogt(left(node), value), right(node))
    ELSE IF left(node) = None THEN right(node)
    ELSE IF right(node) = None THEN left(node)
    ELSE LET min_node == find_min(right(node))
         IN  BSTNode(data(min_node), left(node),
                     delete_python_nogt(right(node), data(min_node)))

\* _inorder_python appending the node before its left subtree
_inorder_python_rootfirst(node, result) ==
    IF node # None
    THEN _inorder_python_rootfirst(right(node),
             _inorder_python_rootfirst(left(node), Append(result, data(node))))
    ELSE result

\* _postorder_python traversing right before left
_postorder_python_rightfirst(node, result) ==
    IF node # None
    THEN Append(_postorder_python_rightfirst(left(node),
                    _postorder_python_rightfirst(right(node), result)), data(node))
    ELSE result

\* _count_one_child_python with "node.left is not None or node.right is not None"
_count_one_child_python_any(node) ==
    IF node = None THEN 0
    ELSE _count_one_child_python_any(left(node))
         + (IF left(node) # None \/ right(node) # None THEN 1 ELSE 0)
         + _count_one_child_python_any(right(node))

insert_python(node, value) ==
    IF node = None THEN BSTNode(value, None, None)
    ELSE IF value < data(node)
         THEN BSTNode(data(node), insert_python(left(node), value), right(node))
    ELSE IF value > data(node)
         THEN BSTNode(data(node), left(node), insert_python(right(node), value))
    ELSE node

\* find_min without its walk to the left
find_min_root(node) == node

find_min(node) ==
    IF left(node) # None THEN find_min(left(node)) ELSE node

delete_python(node, value) ==
    IF node = None THEN None
    ELSE IF value < data(node)
         THEN BSTNode(data(node), delete_python(left(node), value), right(node))
    ELSE IF value > data(node)
         THEN BSTNode(data(node), left(node), delete_python(right(node), value))
    ELSE IF left(node) = None THEN right(node)
    ELSE IF right(node) = None THEN left(node)
    ELSE LET min_node == find_min(right(node))
         IN  BSTNode(data(min_node), left(node),
                     delete_python(right(node), data(min_node)))

search_python(node, value) ==
    IF node = None THEN FALSE
    ELSE IF value = data(node) THEN TRUE
    ELSE IF value < data(node) THEN search_python(left(node), value)
    ELSE search_python(right(node), value)

\* The traversal helpers append to the list they are handed; the list after
\* the call is the value of the operator.
_preorder_python(node, result) ==
    IF node # None
    THEN _preorder_python(right(node),
             _preorder_python(left(node), Append(result, data(node))))
    ELSE result

_inorder_python(node, result) ==
    IF node # None
    THEN _inorder_python(right(node),
             Append(_inorder_python(left(node), result), data(node)))
    ELSE result

_postorder_python(node, result) ==
    IF node # None
    THEN Append(_postorder_python(right(node),
                    _postorder_python(left(node), result)), data(node))
    ELSE result

_count_nodes_python(node) ==
    IF node = None THEN 0
    ELSE 1 + _count_nodes_python(left(node)) + _count_nodes_python(right(node))

_count_one_child_python(node) ==
    IF node = None THEN 0
    ELSE _count_one_child_python(left(node))
         + (IF \/ (left(node) = None /\ right(node) # None)
               \/ (right(node) = None /\ left(node) # None)
            THEN 1 ELSE 0)
         + _count_one_child_python(right(node))

_count_two_children_python(node) ==
    IF node = None THEN 0
    ELSE _count_two_children_python(left(node))
         + (IF left(node) # None /\ right(node) # None THEN 1 ELSE 0)
         + _count_two_children_python(right(node))

_count_common_parent_python(node) == _count_two_children_python(node)

-----------------------------------------------------------------------------
\* BSTVisualizer handlers.  Each reads the value entry; text that int()
\* rejects raises ValueError, which the handler answers with an error dialog.

-----------------------------------------------------------------------------
\* The canvases.  A canvas item is its kind, the coordinates it was created
\* with and the number it shows (<<>> for none).  A draw_tree call is kept
\* in the same form, with kind "call".

Item(kind, at, label) == [kind |-> kind, at |-> at, label |-> label]
IsCall(item) == item.kind = "call"
IsDrawn(item) == item.kind # "call"

\* refresh_view without canvas.delete("all")
cleared_kept(items) == items

\* canvas.delete("all")
cleared(items) == <<>>

\* draw_tree: the x_offset passed to the calls for the children
child_offset(x_offset) == x_offset \div 2

RECURSIVE draw_tree(_, _, _, _, _, _)
\* draw_tree: the call itself, then the items in the order they are created
draw_tree(node, x, y, x_offset, y_offset, depth) ==
    IF node = None THEN <<>>
    ELSE <<Item("call", <<x, y, x_offset, y_offset, depth>>, <<data(node)>>)>>
         \o (IF left(node) # None
             THEN <<Item("line", <<x, y + 20, x - x_offset, y + y_offset - 20>>, <<>>)>>
                  \o draw_tree(left(node), x - x_offset, y + y_offset,
                               child_offset(x_offset), y_offset, depth + 1)
             ELSE <<>>)
         \o (IF right(node) # None
             THEN <<Item("line", <<x, y + 20, x + x_offset, y + y_offset - 20>>, <<>>)>>
                  \o draw_tree(right(node), x + x_offset, y + y_offset,
                               child_offset(x_offset), y_offset, depth + 1)
             ELSE <<>>)
         \o <<Item("oval", <<x - 25, y - 25, x + 25, y + 25>>, <<>>),
              Item("text", <<x, y>>, <<data(node)>>)>>

\* BSTVisualizer.refresh_view after the canvas was cleared
bst_draw(r, size) ==
    IF r = None
    THEN <<Item("empty_text", <<size[1] \div 2, size[2] \div 2>>, <<>>)>>
    ELSE LET width == IF size[1] <= 1 \/ size[2] <= 1 THEN 1000 ELSE size[1]
         IN  draw_tree(r, width \div 2, 50, width \div 4, 80, 0)

RECURSIVE draw_nodes(_, _, _, _)
\* draw_list's while loop and the NULL text after it
draw_nodes(current, ns, x, y) ==
    IF current = 0 THEN <<Item("null_text", <<x, y>>, <<>>)>>
    ELSE <<Item("rectangle", <<x, y - 30, x + 80, y + 30>>, <<>>),
           Item("text", <<x + 40, y>>, <<ns[current].data>>)>>
         \o (IF ns[current].next # 0
             THEN <<Item("line", <<x + 80, y, x + 120 - 20, y>>, <<>>)>>
             ELSE <<>>)
         \o draw_nodes(ns[current].next, ns, x + 120, y)

\* LinkedListVisualizer.refresh_view after the canvas was cleared
ll_draw(h, ns, size) ==
    IF h = 0
    THEN <<Item("empty_text", <<size[1] \div 2, size[2] \div 2>>, <<>>)>>
    ELSE LET y == IF size[2] \div 2 <= 1 THEN 200 ELSE size[2] \div 2
         IN  draw_nodes(h, ns, 100, y)

Larger(a, b) == IF a >= b THEN a ELSE b
Smaller(a, b) == IF a <= b THEN a ELSE b

\* draw_graph: vertex_positions[i].  The point of the circle at angle
\* 2*pi*i/n - pi/2 is kept as the numbers it is computed from.
vertex_position(i, n, center_x, center_y, radius) ==
    IF n = 1 THEN <<center_x, center_y, 0, 0, 1>>
    ELSE <<center_x, center_y, radius, i, n>>

\* draw_graph: the arrow lines in edge order, then the vertices.  draw_arrow
\* creates the line; its create_text is given bg="white", which a canvas
\* text item does not take, and the error is caught by draw_graph.
draw_graph(n, es, size) ==
    LET req_width == IF ReqWidth <= 1 THEN size[1] ELSE ReqWidth
        req_height == IF ReqHeight <= 1 THEN size[2] ELSE ReqHeight
        unrendered == req_width <= 1 \/ req_height <= 1
        width == Larger(IF unrendered THEN 1000 ELSE req_width, 400)
        height == Larger(IF unrendered THEN 600 ELSE req_height, 300)
        center_x == width \div 2
        center_y == height \div 2
        max_radius == Smaller(width, height) \div 3
        base_radius == Smaller(width, height) \div 3
        radius == Larger(100, Smaller(base_radius, max_radius))
        pos(i) == vertex_position(i, n, center_x, center_y, radius)
        arrows == [k \in 1..Len(es) |->
                      Item("line", pos(es[k][1]) \o pos(es[k][2]), <<>>)]
        vertex(k) == IF k % 2 = 1
                     THEN Item("oval", pos((k - 1) \div 2), <<>>)
                     ELSE Item("text", pos((k - 1) \div 2), <<(k - 1) \div 2>>)
    IN  arrows \o [k \in 1..(2 * n) |-> vertex(k)]

\* GraphVisualizer.refresh_view after the canvas was cleared
g_draw(n, es, size) ==
    IF n = 0
    THEN <<Item("empty_text",
                <<Larger(size[1], 400) \div 2, Larger(size[2], 300) \div 2>>, <<>>)>>
    ELSE draw_graph(n, es, size)

\* self.refresh_view() inside a handler of each tab
BstRefreshed(r) ==
    /\ bst_canvas' = cleared(bst_canvas) \o SelectSeq(bst_draw(r, canvas_size), IsDrawn)
    /\ bst_calls' = SelectSeq(bst_draw(r, canvas_size), IsCall)
BstViewKept == UNCHANGED <<bst_canvas, bst_calls>>
ListRefreshed(h, ns) ==
    ll_canvas' = cleared(ll_canvas) \o ll_draw(h, ns, canvas_size)
GraphRefreshed(n, es) ==
    g_canvas' = cleared(g_canvas) \o g_draw(n, es, canvas_size)
\* a graph handler schedules nothing
GraphFrame ==
    /\ UNCHANGED <<_redraw_pending, after_queue, run>>
    /\ SameWindow

BstOp(name, value, status) == [name |-> name, value |-> value, status |-> status]

BstQueryFrame ==
    /\ UNCHANGED <<root, bst_ins, bst_ins_only>>
    /\ bst_chain' = <<>>
    /\ UNCHANGED <<graph_vars, list_vars>>
    /\ SameWindow

\* result, count and found are locals of the handlers: a handler that does
\* not compute one leaves nothing behind.
NoOut == bst_out' = <<>>
NoCount == bst_count' = 0
NoFound == bst_found' = FALSE

insert_node ==
    \/ \E value \in Values :
          /\ root' = insert_python(root, value)
          /\ bst_op' = BstOp("insert_node", value, "ok")
          /\ bst_pre' = root
          /\ bst_ins' = IF bst_ins_only THEN bst_ins \cup {value} ELSE {}
          /\ bst_chain' = <<>>
          /\ NoOut /\ NoCount /\ NoFound
          /\ UNCHANGED <<bst_ins_only, graph_vars, list_vars>>
          /\ SameWindow /\ BstRefreshed(root')
    \/ /\ bst_op' = BstOp("insert_node", 0, "ValueError")
       /\ bst_pre' = root
       /\ BstQueryFrame /\ BstViewKept
       /\ NoOut /\ NoCount /\ NoFound

delete_node ==
    \/ \E value \in Values :
          /\ root' = delete_python(root, value)
          /\ bst_op' = BstOp("delete_node", value, "ok")
          /\ bst_pre' = root
          /\ bst_ins' = {}
          /\ bst_ins_only' = FALSE
          /\ bst_chain' = IF /\ bst_op.name = "insert_node"
                             /\ bst_op.status = "ok"
                             /\ bst_op.value = value
                          THEN <<bst_pre>> ELSE <<>>
          /\ NoOut /\ NoCount /\ NoFound
          /\ UNCHANGED <<graph_vars, list_vars>>
          /\ SameWindow /\ BstRefreshed(root')
    \/ /\ bst_op' = BstOp("delete_node", 0, "ValueError")
       /\ bst_pre' = root
       /\ BstQueryFrame /\ BstViewKept
       /\ NoOut /\ NoCount /\ NoFound

search_node ==
    \/ \E value \in Values :
          /\ bst_found' = search_python(root, value)
          /\ bst_op' = BstOp("search_node", value, "ok")
          /\ bst_pre' = root
          /\ BstQueryFrame /\ BstRefreshed(root)
          /\ NoOut /\ NoCount
    \/ /\ bst_op' = BstOp("search_node", 0, "ValueError")
       /\ bst_pre' = root
       /\ BstQueryFrame /\ BstViewKept
       /\ NoOut /\ NoCount /\ NoFound

clear_tree ==
    /\ root' = None
    /\ bst_op' = BstOp("clear_tree", 0, "ok")
    /\ bst_pre' = root
    /\ bst_ins' = {}
    /\ bst_ins_only' = TRUE
    /\ bst_chain' = <<>>
    /\ NoOut /\ NoCount /\ NoFound
    /\ UNCHANGED <<graph_vars, list_vars>>
    /\ SameWindow /\ BstRefreshed(root')

preorder_traversal ==
    /\ bst_out' = IF root = None THEN <<>> ELSE _preorder_python(root, <<>>)
    /\ bst_op' = BstOp("preorder_traversal", 0, "ok")
    /\ bst_pre' = root
    /\ BstQueryFrame /\ BstViewKept
    /\ NoCount /\ NoFound

inorder_traversal ==
    /\ bst_out' = IF root = None THEN <<>> ELSE _inorder_python(root, <<>>)
    /\ bst_op' = BstOp("inorder_traversal", 0, "ok")
    /\ bst_pre' = root
    /\ BstQueryFrame /\ BstViewKept
    /\ NoCount /\ NoFound

postorder_traversal ==
    /\ bst_out' = IF root = None THEN <<>> ELSE _postorder_python(root, <<>>)
    /\ bst_op' = BstOp("postorder_traversal", 0, "ok")
    /\ bst_pre' = root
    /\ BstQueryFrame /\ BstViewKept
    /\ NoCount /\ NoFound

count_nodes ==
    /\ bst_count' = IF root = None THEN 0 ELSE _count_nodes_python(root)
    /\ bst_op' = BstOp("count_nodes", 0, "ok")
    /\ bst_pre' = root
    /\ BstQueryFrame /\ BstViewKept
    /\ NoOut /\ NoFound

count_one_child ==
    /\ bst_count' = IF root = None THEN 0 ELSE _count_one_child_python(root)
    /\ bst_op' = BstOp("count_one_child", 0, "ok")
    /\ bst_pre' = root
    /\ BstQueryFrame /\ BstViewKept
    /\ NoOut /\ NoFound

count_two_children ==
    /\ bst_count' = IF root = None THEN 0 ELSE _count_two_children_python(root)
    /\ bst_op' = BstOp("count_two_children", 0, "ok")
    /\ bst_pre' = root
    /\ BstQueryFrame /\ BstViewKept
    /\ NoOut /\ NoFound

count_common_parent ==
    /\ bst_count' = IF root = None THEN 0 ELSE _count_common_parent_python(root)
    /\ bst_op' = BstOp("count_common_parent", 0, "ok")
    /\ bst_pre' = root
    /\ BstQueryFrame /\ BstViewKept
    /\ NoOut /\ NoFound

-----------------------------------------------------------------------------
\* Vocabulary of the BST properties

RECURSIVE SubtreeValues(_)
RECURSIVE Ordered(_)
RECURSIVE LeafCount(_)
RECURSIVE NodeAt(_, _)
RECURSIVE SortedSeq(_)
RECURSIVE PreOrder(_)
RECURSIVE InOrder(_)
RECURSIVE PostOrder(_)

\* the values stored in the nodes of a subtree
SubtreeValues(node) ==
    IF node = None THEN {}
    ELSE {data(node)} \cup SubtreeValues(left(node)) \cup SubtreeValues(right(node))

\* every node is larger than all of its left subtree and smaller than all of its right subtree
Ordered(node) ==
    \/ node = None
    \/ /\ \A v \in SubtreeValues(left(node)) : v < data(node)
       /\ \A v \in SubtreeValues(right(node)) : v > data(node)
       /\ Ordered(left(node))
       /\ Ordered(right(node))

LeafCount(node) ==
    IF node = None THEN 0
    ELSE IF left(node) = None /\ right(node) = None THEN 1
    ELSE LeafCount(left(node)) + LeafCount(right(node))

\* the node holding value v, found anywhere in the subtree (None when absent)
NodeAt(node, v) ==
    IF node = None THEN None
    ELSE IF data(node) = v THEN node
    ELSE IF NodeAt(left(node), v) # None THEN NodeAt(left(node), v)
    ELSE NodeAt(right(node), v)

TwoChildren(node) == node # None /\ left(node) # None /\ right(node) # None

\* the elements of a finite set of integers in ascending order
SortedSeq(S) ==
    IF S = {} THEN <<>>
    ELSE LET m == CHOOSE x \in S : \A y \in S : x <= y
         IN  <<m>> \o SortedSeq(S \ {m})

PreOrder(node) ==
    IF node = None THEN <<>>
    ELSE <<data(node)>> \o PreOrder(left(node)) \o PreOrder(right(node))

InOrder(node) ==
    IF node = None THEN <<>>
    ELSE InOrder(left(node)) \o <<data(node)>> \o InOrder(right(node))

PostOrder(node) ==
    IF node = None THEN <<>>
    ELSE PostOrder(left(node)) \o PostOrder(right(node)) \o <<data(node)>>

SeqRange(q) == {q[i] : i \in 1..Len(q)}
NoRepeat(q) == \A i, j \in 1..Len(q) : q[i] = q[j] => i = j

BstRan(name) == bst_op.name = name /\ bst_op.status = "ok"

-----------------------------------------------------------------------------
\* BST properties

\* C1: after any sequence of insert, delete and clear, every node of the tree
\* is larger than every value in its left subtree and smaller than every
\* value in its right subtree.
C1_StrictOrdering == Ordered(root)

\* C1 case: a delete of a node with two children whose successor is not its
\* right child has just run and left a tree of at least three nodes.
C1_Witness ==
    /\ BstRan("delete_node")
    /\ LET n == NodeAt(bst_pre, bst_op.value)
       IN  TwoChildren(n) /\ left(right(n)) # None
    /\ Cardinality(SubtreeValues(root)) >= 3

\* C2: after inserts only into an empty tree, the in-order traversal is the
\* set of inserted values in ascending order, each once; the InOrder handler
\* shows exactly that list.
C2_InorderSorted ==
    bst_ins_only =>
        /\ _inorder_python(root, <<>>) = SortedSeq(bst_ins)
        /\ BstRan("inorder_traversal") => bst_out = SortedSeq(bst_ins)

\* C2 case: the InOrder handler ran on a tree built by inserts only, with a
\* root that has both children.
C2_Witness ==
    /\ bst_ins_only
    /\ BstRan("inorder_traversal")
    /\ Len(bst_out) >= 4
    /\ TwoChildren(root)

\* C3: after insert_node(v) on T followed by delete_node(v), a search for v
\* fails and every other value of T is still found.
C3_DeleteAfterInsert ==
    bst_chain # <<>> =>
        /\ ~search_python(root, bst_op.value)
        /\ \A u \in SubtreeValues(bst_chain[1]) \ {bst_op.value} :
              search_python(root, u)

\* C3 case: v was inserted into a tree of at least three other values and
\* then deleted from a node with two children.
C3_Witness ==
    /\ bst_chain # <<>>
    /\ Cardinality(SubtreeValues(bst_chain[1]) \ {bst_op.value}) >= 3
    /\ TwoChildren(NodeAt(bst_pre, bst_op.value))

\* C4: insert_node of a value the tree already holds leaves the tree as it
\* was and ends without an error.
C4_DuplicateInsertNoop ==
    (/\ bst_op.name = "insert_node"
     /\ bst_op.status # "ValueError"
     /\ bst_op.value \in SubtreeValues(bst_pre))
        => root = bst_pre /\ bst_op.status = "ok"

\* C4 case: a value held below the root of a tree of at least three nodes was
\* inserted again.
C4_Witness ==
    /\ BstRan("insert_node")
    /\ bst_op.value \in SubtreeValues(bst_pre)
    /\ bst_op.value # data(bst_pre)
    /\ Cardinality(SubtreeValues(bst_pre)) >= 3

\* C5: delete_node of a value the tree does not hold (the empty tree
\* included) leaves the tree as it was and ends without an error.
C5_DeleteAbsentNoop ==
    (/\ bst_op.name = "delete_node"
     /\ bst_op.status # "ValueError"
     /\ bst_op.value \notin SubtreeValues(bst_pre))
        => root = bst_pre /\ bst_op.status = "ok"

\* C5 case: a value between the stored ones was deleted from a tree whose
\* root has two children.
C5_Witness ==
    /\ BstRan("delete_node")
    /\ bst_op.value \notin SubtreeValues(bst_pre)
    /\ TwoChildren(bst_pre)
    /\ \E a, b \in SubtreeValues(bst_pre) : a < bst_op.value /\ bst_op.value < b

\* C6: the node count is the one-child count plus the two-children count
\* plus the number of leaves, the counts are 0 on the empty tree, and the
\* statistics handlers show these counts.
C6_CountIdentity ==
    /\ _count_nodes_python(root)
          = _count_one_child_python(root) + _count_two_children_python(root)
            + LeafCount(root)
    /\ root = None =>
          /\ _count_nodes_python(root) = 0
          /\ _count_one_child_python(root) = 0
          /\ _count_two_children_python(root) = 0
    /\ BstRan("count_nodes") =>
          bst_count = _count_one_child_python(root)
                      + _count_two_children_python(root) + LeafCount(root)
    /\ BstRan("count_one_child") =>
          bst_count = _count_nodes_python(root)
                      - _count_two_children_python(root) - LeafCount(root)
    /\ BstRan("count_two_children") =>
          bst_count = _count_nodes_python(root)
                      - _count_one_child_python(root) - LeafCount(root)

\* C6 case: the One Child handler ran on a tree, reached by a delete, that
\* has a one-child node, a two-children node and a leaf.
C6_Witness ==
    /\ BstRan("count_one_child")
    /\ bst_count >= 1
    /\ _count_two_children_python(root) >= 1
    /\ ~bst_ins_only

\* C7: each traversal handler lists every stored value exactly once, in
\* node-left-right, left-node-right and left-right-node order respectively,
\* and leaves the tree as it was.
C7_TraversalOrders ==
    /\ BstRan("preorder_traversal") => bst_out = PreOrder(bst_pre)
    /\ BstRan("inorder_traversal") => bst_out = InOrder(bst_pre)
    /\ BstRan("postorder_traversal") => bst_out = PostOrder(bst_pre)
    /\ bst_op.name \in {"preorder_traversal", "inorder_traversal", "postorder_traversal"} =>
          /\ root = bst_pre
          /\ SeqRange(bst_out) = SubtreeValues(root)
          /\ NoRepeat(bst_out)
          /\ Len(bst_out) = _count_nodes_python(root)

\* C7 case: the PostOrder handler ran on a tree of at least four nodes whose
\* root has two children.
C7_Witness ==
    /\ BstRan("postorder_traversal")
    /\ Len(bst_out) >= 4
    /\ TwoChildren(root)

RECURSIVE Size(_)
Size(node) == IF node = None THEN 0 ELSE 1 + Size(left(node)) + Size(right(node))
\* the tree with the subtree whose root holds v replaced by sub
RECURSIVE Subst(_, _, _)
Subst(node, v, sub) ==
    IF node = None THEN None
    ELSE IF data(node) = v THEN sub
    ELSE BSTNode(data(node), Subst(left(node), v, sub), Subst(right(node), v, sub))
\* the least element of a non-empty set of integers
Least(S) == CHOOSE x \in S : \A y \in S : x <= y

\* C28: delete_node of a value held by a node with two children puts the
\* minimum of the node's right subtree in the node, removes exactly one node
\* from the right subtree, leaves the left subtree as it was, and the stored
\* values are the previous ones without the deleted value.
C28_DeleteTwoChildren ==
    (BstRan("delete_node") /\ TwoChildren(NodeAt(bst_pre, bst_op.value))) =>
        LET N == NodeAt(bst_pre, bst_op.value)
            succ == Least(SubtreeValues(right(N)))
            M == NodeAt(root, succ)
        IN  /\ M # None
            /\ root = Subst(bst_pre, bst_op.value, M)
            /\ left(M) = left(N)
            /\ Size(right(M)) = Size(right(N)) - 1
            /\ SubtreeValues(right(M)) = SubtreeValues(right(N)) \ {succ}
            /\ SubtreeValues(root) = SubtreeValues(bst_pre) \ {bst_op.value}

\* C28 case: the deleted value was held by a node below the root whose two
\* children were present and whose right child had a left child.
C28_Witness ==
    /\ BstRan("delete_node")
    /\ TwoChildren(NodeAt(bst_pre, bst_op.value))
    /\ data(bst_pre) # bst_op.value
    /\ left(right(NodeAt(bst_pre, bst_op.value))) # None

-----------------------------------------------------------------------------
\* GraphVisualizer: the edge list.  An edge is the tuple <<src, dest, weight>>.

Edge(src, dest, weight) == <<src, dest, weight>>

\* remove_edge looking at the source only: "if edge[0] == src"
matches_srconly(edge, src, dest) == edge[1] = src

\* the test of remove_edge's scan of self.edges
matches(edge, src, dest) == edge[1] = src /\ edge[2] = dest

\* add_edge without the "edge not in self.edges" test
edges_after_add_always(es, src, dest, weight) ==
    Append(es, Edge(src, dest, weight))

\* add_edge: the edge is appended unless the same tuple is in the list
edges_after_add(es, src, dest, weight) ==
    IF \E i \in 1..Len(es) : es[i] = Edge(src, dest, weight)
    THEN es
    ELSE Append(es, Edge(src, dest, weight))

\* remove_edge: the first edge the scan matches is taken out of the list
edges_after_remove(es, src, dest) ==
    IF \E i \in 1..Len(es) : matches(es[i], src, dest)
    THEN LET k == CHOOSE i \in 1..Len(es) :
                     /\ matches(es[i], src, dest)
                     /\ \A j \in 1..(i - 1) : ~matches(es[j], src, dest)
         IN  SubSeq(es, 1, k - 1) \o SubSeq(es, k + 1, Len(es))
    ELSE es

\* the range test with "src > self.num_vertices"
out_of_range_offbyone(src, dest) ==
    src < 0 \/ src > num_vertices \/ dest < 0 \/ dest >= num_vertices

\* create_graph testing "num_vertices < 0"
not_positive_strict(n) == n < 0

\* create_graph without "self.edges = []"
created_edges_kept(es) == es

\* create_graph's test of the number read from the vertices entry
not_positive(n) == n <= 0

\* create_graph: the edge list of the new graph
created_edges(es) == <<>>

out_of_range(src, dest) ==
    src < 0 \/ src >= num_vertices \/ dest < 0 \/ dest >= num_vertices

GOp(name, src, dest, weight, status) ==
    [name |-> name, src |-> src, dest |-> dest, weight |-> weight, status |-> status]

GPre == [num_vertices |-> num_vertices, edges |-> edges,
         pending |-> _redraw_pending]

\* a handler that returns before it touches the graph
GraphRejected(name, src, dest, weight, status) ==
    /\ g_op' = GOp(name, src, dest, weight, status)
    /\ g_pre' = GPre
    /\ g_chain' = <<>>
    /\ UNCHANGED <<num_vertices, edges, g_canvas>>
    /\ UNCHANGED <<traversal_path, bst_vars, list_vars>>
    /\ GraphFrame

create_graph ==
    \/ \E n \in CountInputs :
          IF not_positive(n)
          THEN GraphRejected("create_graph", n, 0, 0, "NotPositive")
          ELSE /\ num_vertices' = n
               /\ edges' = created_edges(edges)
               /\ g_op' = GOp("create_graph", n, 0, 0, "ok")
               /\ g_pre' = GPre
               /\ g_chain' = <<>>
               /\ UNCHANGED <<traversal_path, bst_vars, list_vars>>
               /\ GraphFrame /\ GraphRefreshed(num_vertices', edges')
    \/ GraphRejected("create_graph", 0, 0, 0, "ValueError")

add_edge ==
    \/ /\ num_vertices = 0
       /\ GraphRejected("add_edge", 0, 0, 0, "NoGraph")
    \/ /\ num_vertices # 0
       /\ GraphRejected("add_edge", 0, 0, 0, "ValueError")
    \/ /\ num_vertices # 0
       /\ \E src \in VertexInputs, dest \in VertexInputs, weight \in Weights :
             IF out_of_range(src, dest)
             THEN GraphRejected("add_edge", src, dest, 0, "OutOfRange")
             ELSE /\ Len(edges_after_add(edges, src, dest, weight)) <= MaxEdges
                  /\ edges' = edges_after_add(edges, src, dest, weight)
                  /\ g_op' = GOp("add_edge", src, dest, weight,
                                 IF edges' = edges THEN "exists" ELSE "ok")
                  /\ g_pre' = GPre
                  /\ g_chain' = <<>>
                  /\ UNCHANGED num_vertices
                  /\ UNCHANGED <<traversal_path, bst_vars, list_vars>>
                  /\ GraphFrame /\ GraphRefreshed(num_vertices', edges')

remove_edge ==
    \/ /\ num_vertices = 0
       /\ GraphRejected("remove_edge", 0, 0, 0, "NoGraph")
    \/ /\ num_vertices # 0
       /\ GraphRejected("remove_edge", 0, 0, 0, "ValueError")
    \/ /\ num_vertices # 0
       /\ \E src \in VertexInputs, dest \in VertexInputs :
             IF out_of_range(src, dest)
             THEN GraphRejected("remove_edge", src, dest, 0, "OutOfRange")
             ELSE /\ edges' = edges_after_remove(edges, src, dest)
                  /\ g_op' = GOp("remove_edge", src, dest, 0, "ok")
                  /\ g_pre' = GPre
                  /\ g_chain' = IF /\ g_op.name = "add_edge"
                                   /\ g_op.status \in {"ok", "exists"}
                                   /\ g_op.src = src
                                   /\ g_op.dest = dest
                                THEN <<g_pre.edges>> ELSE <<>>
                  /\ UNCHANGED num_vertices
                  /\ UNCHANGED <<traversal_path, bst_vars, list_vars>>
                  /\ GraphFrame /\ GraphRefreshed(num_vertices', edges')

clear_graph ==
    /\ num_vertices' = 0
    /\ edges' = <<>>
    /\ traversal_path' = <<>>
    /\ g_op' = GOp("clear_graph", 0, 0, 0, "ok")
    /\ g_pre' = GPre
    /\ g_chain' = <<>>
    /\ UNCHANGED <<bst_vars, list_vars>>
    /\ GraphFrame /\ GraphRefreshed(num_vertices', edges')

\* ---- bfs_traversal and dfs_traversal ----

RECURSIVE neighbors(_, _)
RECURSIVE neighbors_undirected(_, _)
RECURSIVE bfs_enqueue(_, _, _)
RECURSIVE bfs_loop(_, _, _, _)
RECURSIVE bfs_loop_lifo(_, _, _, _)
RECURSIVE dfs_util(_, _, _)
RECURSIVE dfs_neighbors(_, _, _)
RECURSIVE dfs_neighbors_reversed(_, _, _)

\* adj_list[v] after the loop over self.edges: the dest of the edges whose
\* src is v, in list order
neighbors(es, v) ==
    IF es = <<>> THEN <<>>
    ELSE (IF Head(es)[1] = v THEN <<Head(es)[2]>> ELSE <<>>)
            \o neighbors(Tail(es), v)

\* an adjacency list that also holds the src of the edges whose dest is v
neighbors_undirected(es, v) ==
    IF es = <<>> THEN <<>>
    ELSE (IF Head(es)[1] = v THEN <<Head(es)[2]>> ELSE <<>>)
            \o (IF Head(es)[2] = v /\ Head(es)[1] # v THEN <<Head(es)[1]>> ELSE <<>>)
            \o neighbors_undirected(Tail(es), v)

adj_list_undirected(n, es) == [i \in 0..(n - 1) |-> neighbors_undirected(es, i)]

adj_list(n, es) == [i \in 0..(n - 1) |-> neighbors(es, i)]

RECURSIVE bfs_enqueue_nomark(_, _, _)
\* the inner for loop without "visited[neighbor] = True"
bfs_enqueue_nomark(nbs, visited, queue) ==
    IF nbs = <<>> THEN [visited |-> visited, queue |-> queue]
    ELSE IF Head(nbs) \in visited
         THEN bfs_enqueue_nomark(Tail(nbs), visited, queue)
         ELSE bfs_enqueue_nomark(Tail(nbs), visited, Append(queue, Head(nbs)))

\* bfs_traversal's inner for loop; visited is the set of the indices that
\* hold True
bfs_enqueue(nbs, visited, queue) ==
    IF nbs = <<>> THEN [visited |-> visited, queue |-> queue]
    ELSE IF Head(nbs) \in visited
         THEN bfs_enqueue(Tail(nbs), visited, queue)
         ELSE bfs_enqueue(Tail(nbs), visited \cup {Head(nbs)},
                          Append(queue, Head(nbs)))

\* a while loop that takes the vertex with queue.pop()
bfs_loop_lifo(adj, visited, queue, traversal_order) ==
    IF queue = <<>> THEN traversal_order
    ELSE LET vertex == queue[Len(queue)]
             s == bfs_enqueue(adj[vertex], visited,
                              SubSeq(queue, 1, Len(queue) - 1))
         IN  bfs_loop_lifo(adj, s.visited, s.queue,
                           Append(traversal_order, vertex))

\* bfs_traversal's while loop
bfs_loop(adj, visited, queue, traversal_order) ==
    IF queue = <<>> THEN traversal_order
    ELSE LET vertex == Head(queue)
             s == bfs_enqueue(adj[vertex], visited, Tail(queue))
         IN  bfs_loop(adj, s.visited, s.queue, Append(traversal_order, vertex))

\* the traversal_order bfs_traversal builds
bfs_python(n, es, start) ==
    bfs_loop(adj_list(n, es), {start}, <<start>>, <<>>)

\* a for loop over reversed(adj_list[vertex])
dfs_neighbors_reversed(adj, nbs, st) ==
    IF nbs = <<>> THEN st
    ELSE LET last == nbs[Len(nbs)]
         IN  dfs_neighbors_reversed(adj, SubSeq(nbs, 1, Len(nbs) - 1),
                 IF last \in st.visited THEN st ELSE dfs_util(adj, last, st))

\* dfs_util's for loop; st is [visited, traversal_order]
dfs_neighbors(adj, nbs, st) ==
    IF nbs = <<>> THEN st
    ELSE dfs_neighbors(adj, Tail(nbs),
             IF Head(nbs) \in st.visited THEN st
             ELSE dfs_util(adj, Head(nbs), st))

dfs_util(adj, vertex, st) ==
    dfs_neighbors(adj, adj[vertex],
                  [visited |-> st.visited \cup {vertex},
                   traversal_order |-> Append(st.traversal_order, vertex)])

\* the traversal_order dfs_traversal builds
dfs_python(n, es, start) ==
    dfs_util(adj_list(n, es), start,
             [visited |-> {}, traversal_order |-> <<>>]).traversal_order

\* a traversal handler after its loop: the order is stored and drawn
Stored(name, start, traversal_order) ==
    /\ traversal_path' = traversal_order
    /\ g_op' = GOp(name, start, 0, 0, "ok")
    /\ g_pre' = GPre
    /\ g_chain' = <<>>
    /\ UNCHANGED <<num_vertices, edges, _redraw_pending, after_queue>>
    /\ UNCHANGED <<bst_vars, list_vars>>
    /\ SameWindow
    /\ GraphRefreshed(num_vertices, edges)

\* a traversal handler after askinteger returned start
Traversed(name, start, traversal_order) ==
    /\ Stored(name, start, traversal_order)
    /\ UNCHANGED run

bfs_traversal ==
    IF num_vertices = 0
    THEN GraphRejected("bfs_traversal", 0, 0, 0, "NoGraph")
    ELSE \/ \E start \in 0..(num_vertices - 1) :
               Traversed("bfs_traversal", start,
                         bfs_python(num_vertices, edges, start))
         \/ GraphRejected("bfs_traversal", 0, 0, 0, "cancelled")

dfs_traversal ==
    IF num_vertices = 0
    THEN GraphRejected("dfs_traversal", 0, 0, 0, "NoGraph")
    ELSE \/ \E start \in 0..(num_vertices - 1) :
               Traversed("dfs_traversal", start,
                         dfs_python(num_vertices, edges, start))
         \/ GraphRejected("dfs_traversal", 0, 0, 0, "cancelled")

-----------------------------------------------------------------------------
\* Graph properties

PairEdges(es, src, dest) == {i \in 1..Len(es) : es[i][1] = src /\ es[i][2] = dest}

\* the edges of es that do not run from src to dest, in their order
OtherEdges(es, src, dest) ==
    SelectSeq(es, LAMBDA e : ~(e[1] = src /\ e[2] = dest))

\* C8: the edge list holds at most one edge for each ordered (source,
\* destination) pair, whatever the weights given to add_edge.
C8_OneEdgePerPair ==
    \A i, j \in 1..Len(edges) :
        (edges[i][1] = edges[j][1] /\ edges[i][2] = edges[j][2]) => i = j

\* C9 as stated: add_edge(src, dest, w) followed at once by
\* remove_edge(src, dest) leaves the set of edges that was there before the
\* add_edge.
C9_AddRemoveRestores ==
    g_chain # <<>> => SeqRange(edges) = SeqRange(g_chain[1])

\* C9 amended: when no edge from src to dest is stored before the add_edge,
\* add_edge(src, dest, w) followed at once by remove_edge(src, dest) leaves
\* the set of edges that was there before the add_edge.
C9_AddRemoveRestoresFresh ==
    (/\ g_chain # <<>>
     /\ PairEdges(g_chain[1], g_op.src, g_op.dest) = {})
        => SeqRange(edges) = SeqRange(g_chain[1])

\* C9 case: an edge between a pair that had none was added to a list that
\* already held an edge with the same source, and removed again.
C9_Witness ==
    /\ g_chain # <<>>
    /\ PairEdges(g_chain[1], g_op.src, g_op.dest) = {}
    /\ \E i \in 1..Len(g_chain[1]) : g_chain[1][i][1] = g_op.src

\* C10: remove_edge(src, dest) with valid ids leaves no edge from src to
\* dest, leaves every other edge and the vertex count as they were, ends
\* without an error, and changes nothing when there was no such edge.
C10_RemoveEdgeEffect ==
    (/\ g_op.name = "remove_edge"
     /\ g_op.status \notin {"NoGraph", "ValueError", "OutOfRange"})
        => /\ g_op.status = "ok"
           /\ PairEdges(edges, g_op.src, g_op.dest) = {}
           /\ edges = OtherEdges(g_pre.edges, g_op.src, g_op.dest)
           /\ num_vertices = g_pre.num_vertices
           /\ PairEdges(g_pre.edges, g_op.src, g_op.dest) = {} => edges = g_pre.edges

GRejected == {"NoGraph", "ValueError", "OutOfRange", "NotPositive"}
GUnchanged == edges = g_pre.edges /\ num_vertices = g_pre.num_vertices
InRange(n, v) == 0 <= v /\ v < n

\* C11: add_edge with src or dest outside [0, vertex_count) ends in an error
\* and leaves the edges and the vertex count as they were; so does add_edge
\* when no graph was created.
C11_AddEdgeOutOfRange ==
    g_op.name = "add_edge" =>
        /\ g_pre.num_vertices = 0 => g_op.status = "NoGraph" /\ GUnchanged
        /\ (/\ g_pre.num_vertices # 0
            /\ ~(InRange(g_pre.num_vertices, g_op.src)
                 /\ InRange(g_pre.num_vertices, g_op.dest)))
              => g_op.status = "OutOfRange" /\ GUnchanged

\* C11 case: add_edge was given a valid source and the vertex count as
\* destination while an edge was stored.
C11_Witness ==
    /\ g_op.name = "add_edge"
    /\ g_op.status = "OutOfRange"
    /\ InRange(num_vertices, g_op.src)
    /\ g_op.dest = num_vertices
    /\ Len(edges) >= 1

\* C12: add_edge of a (src, dest, weight) tuple that is already stored leaves
\* the edge list unchanged in content and order.
C12_AddEdgeIdempotent ==
    (/\ g_op.name = "add_edge"
     /\ g_op.status \notin GRejected
     /\ \E i \in 1..Len(g_pre.edges) :
           g_pre.edges[i] = <<g_op.src, g_op.dest, g_op.weight>>)
        => edges = g_pre.edges /\ num_vertices = g_pre.num_vertices

\* C12 case: the first of two stored edges was added again.
C12_Witness ==
    /\ g_op.name = "add_edge"
    /\ g_op.status \notin GRejected
    /\ Len(g_pre.edges) >= 2
    /\ g_pre.edges[1] = <<g_op.src, g_op.dest, g_op.weight>>

\* C13: no stored edge has its source equal to its destination.
C13_NoSelfLoops ==
    \A i \in 1..Len(edges) : edges[i][1] # edges[i][2]

\* C14: create_graph with a count <= 0 ends in an error and leaves the vertex
\* count and the edges as they were; with a count >= 1 it sets that vertex
\* count and an empty edge list.
C14_CreateGraph ==
    (g_op.name = "create_graph" /\ g_op.status # "ValueError") =>
        /\ g_op.src <= 0 => g_op.status = "NotPositive" /\ GUnchanged
        /\ g_op.src >= 1 =>
              /\ g_op.status = "ok"
              /\ num_vertices = g_op.src
              /\ edges = <<>>

\* C14 case: create_graph was asked for 0 vertices while a graph with an
\* edge existed.
C14_Witness ==
    /\ g_op.name = "create_graph"
    /\ g_op.status = "NotPositive"
    /\ g_op.src = 0
    /\ Len(edges) >= 1

\* C15: every stored edge has its source and destination in
\* [0, vertex_count), also after the graph is created again with fewer
\* vertices.
C15_EdgesInRange ==
    \A i \in 1..Len(edges) :
        InRange(num_vertices, edges[i][1]) /\ InRange(num_vertices, edges[i][2])

\* C15 case: a graph holding an edge that touches its last vertex was
\* created again with fewer vertices.
C15_Witness ==
    /\ g_op.name = "create_graph"
    /\ g_op.status = "ok"
    /\ num_vertices < g_pre.num_vertices
    /\ \E i \in 1..Len(g_pre.edges) :
          g_pre.edges[i][1] >= num_vertices \/ g_pre.edges[i][2] >= num_vertices

-----------------------------------------------------------------------------
\* Specifications

\* ---- linkedlist_ui.py ----

\* a ListNode object: its data and next fields (0 for None)
ListNode(d, n) == [data |-> d, next |-> n]
NoNodes == [i \in {} |-> ListNode(0, 0)]

RECURSIVE reach(_, _)
RECURSIVE count_from(_, _)
RECURSIVE list_values(_, _)
RECURSIVE second_to_last(_, _)
RECURSIVE search_from(_, _, _, _)
RECURSIVE search_from_last(_, _, _, _)
RECURSIVE walk_ends(_, _, _)

\* the objects a reference reaches; the others are garbage
reach(h, ns) == IF h = 0 THEN {} ELSE {h} \cup reach(ns[h].next, ns)
collect(h, ns) == [i \in reach(h, ns) |-> ns[i]]
\* the identity of a newly constructed ListNode
fresh(ns) == CHOOSE i \in (1..MaxNodes) \ DOMAIN ns :
                \A j \in (1..MaxNodes) \ DOMAIN ns : i <= j

\* insert_at_head with "new_node.next = None"
push_node_unlinked(ns, h, new_node, value) ==
    [i \in DOMAIN ns \cup {new_node} |->
        IF i = new_node THEN ListNode(value, 0) ELSE ns[i]]

\* delete_from_head with "self.head = self.head.next.next"
head_after_delete_skip(h, ns) ==
    IF ns[h].next = 0 THEN 0 ELSE ns[ns[h].next].next

\* insert_at_head with "new_node.next = new_node"
push_node_selfloop(ns, h, new_node, value) ==
    [i \in DOMAIN ns \cup {new_node} |->
        IF i = new_node THEN ListNode(value, new_node) ELSE ns[i]]

\* delete_from_tail without its walk: current stays self.head
second_to_last_head(current, ns) == current

\* reverse_display without the [::-1]
reversed_values_same(values) == values

\* search_node without the break: the position of the last match
search_from_last(current, ns, value, position) ==
    IF current = 0 THEN [found |-> FALSE, position |-> position]
    ELSE LET rest == search_from_last(ns[current].next, ns, value, position + 1)
         IN  IF rest.found THEN rest
             ELSE IF ns[current].data = value
                  THEN [found |-> TRUE, position |-> position]
                  ELSE rest

\* insert_at_head: new_node = ListNode(value); new_node.next = self.head
push_node(ns, h, new_node, value) ==
    [i \in DOMAIN ns \cup {new_node} |->
        IF i = new_node THEN ListNode(value, h) ELSE ns[i]]

\* delete_from_head: self.head.next
head_after_delete(h, ns) == ns[h].next

\* update_count's and count_nodes' walk
count_from(current, ns) ==
    IF current = 0 THEN 0 ELSE 1 + count_from(ns[current].next, ns)

\* reverse_display's walk: the values list
list_values(current, ns) ==
    IF current = 0 THEN <<>>
    ELSE <<ns[current].data>> \o list_values(ns[current].next, ns)

\* values[::-1]
reversed_values(values) ==
    [i \in 1..Len(values) |-> values[Len(values) + 1 - i]]

\* delete_from_tail's walk, entered when current.next is not None
second_to_last(current, ns) ==
    IF ns[ns[current].next].next = 0 THEN current
    ELSE second_to_last(ns[current].next, ns)

\* search_node's walk
search_from(current, ns, value, position) ==
    IF current = 0 THEN [found |-> FALSE, position |-> position]
    ELSE IF ns[current].data = value
         THEN [found |-> TRUE, position |-> position]
         ELSE search_from(ns[current].next, ns, value, position + 1)

\* "while current:" leaves its loop: following next from current ends at
\* None (on a cycle the loop runs forever)
walk_ends(current, ns, seen) ==
    IF current = 0 THEN TRUE
    ELSE IF current \in seen THEN FALSE
         ELSE walk_ends(ns[current].next, ns, seen \cup {current})

LOp(name, value, status) == [name |-> name, value |-> value, status |-> status]
LPre == [head |-> head, nodes |-> nodes]

\* no handler is stuck in a loop: the event loop can run the next one
Responsive == ll_op.status # "hang"

\* a handler that reports and leaves the list and the count label alone
ListReport(name, value, status, out) ==
    /\ ll_op' = LOp(name, value, status)
    /\ ll_pre' = LPre
    /\ ll_out' = out
    /\ UNCHANGED <<head, nodes, count_label, ll_canvas>>
    /\ UNCHANGED <<bst_vars, graph_vars>>
    /\ SameWindow

\* search_node: it reports, then calls refresh_view
ListSearched(name, value, status, out) ==
    /\ ll_op' = LOp(name, value, status)
    /\ ll_pre' = LPre
    /\ ll_out' = out
    /\ UNCHANGED <<head, nodes, count_label>>
    /\ ListRefreshed(head, nodes)
    /\ UNCHANGED <<bst_vars, graph_vars>>
    /\ SameWindow

\* a handler that changed the list: update_count, then the history; when
\* update_count's loop never ends the handler never returns
ListUpdated(name, value, out) ==
    /\ IF walk_ends(head', nodes', {})
       THEN /\ count_label' = count_from(head', nodes')
            /\ ll_op' = LOp(name, value, "ok")
            /\ ListRefreshed(head', nodes')
       ELSE /\ count_label' = count_label
            /\ ll_op' = LOp(name, value, "hang")
            /\ UNCHANGED ll_canvas
    /\ SameWindow
    /\ ll_pre' = LPre
    /\ ll_out' = out
    /\ UNCHANGED <<bst_vars, graph_vars>>

insert_at_head ==
    \/ \E value \in ListValues :
          /\ Responsive
          /\ Cardinality(DOMAIN nodes) < MaxNodes
          /\ head' = fresh(nodes)
          /\ nodes' = push_node(nodes, head, fresh(nodes), value)
          /\ ListUpdated("insert_at_head", value, <<>>)
    \/ Responsive /\ ListReport("insert_at_head", 0, "ValueError", <<>>)

delete_from_head ==
    Responsive /\
    IF head = 0
    THEN ListReport("delete_from_head", 0, "empty", <<>>)
    ELSE /\ head' = head_after_delete(head, nodes)
         /\ nodes' = collect(head', nodes)
         /\ ListUpdated("delete_from_head", 0, <<nodes[head].data>>)

delete_from_tail ==
    Responsive /\
    IF head = 0
    THEN ListReport("delete_from_tail", 0, "empty", <<>>)
    ELSE IF nodes[head].next = 0
         THEN /\ head' = 0
              /\ nodes' = NoNodes
              /\ ListUpdated("delete_from_tail", 0, <<nodes[head].data>>)
         ELSE LET current == second_to_last(head, nodes)
              IN  /\ head' = head
                  /\ nodes' = collect(head, [nodes EXCEPT ![current].next = 0])
                  /\ ListUpdated("delete_from_tail", 0,
                                 <<nodes[nodes[current].next].data>>)

search_node_list ==
    \/ \E value \in ListValues :
          Responsive /\
          LET r == search_from(head, nodes, value, 0)
          IN  IF r.found
              THEN ListSearched("search_node", value, "found", <<r.position>>)
              ELSE ListSearched("search_node", value, "not_found", <<>>)
    \/ Responsive /\ ListReport("search_node", 0, "ValueError", <<>>)

count_nodes_list ==
    /\ Responsive
    /\ count_label' = count_from(head, nodes)
    /\ ll_op' = LOp("count_nodes", 0, "ok")
    /\ ll_pre' = LPre
    /\ ll_out' = <<count_from(head, nodes)>>
    /\ UNCHANGED <<head, nodes, ll_canvas>>
    /\ UNCHANGED <<bst_vars, graph_vars>>
    /\ SameWindow

reverse_display ==
    Responsive /\
    IF head = 0
    THEN ListReport("reverse_display", 0, "empty", <<>>)
    ELSE ListReport("reverse_display", 0, "ok",
                    reversed_values(list_values(head, nodes)))

clear_list ==
    /\ Responsive
    /\ head' = 0
    /\ nodes' = NoNodes
    /\ ListUpdated("clear_list", 0, <<>>)

\* ---- the linked list ----

LRan(name) == ll_op.name = name /\ ll_op.status = "ok"
PreValues == list_values(ll_pre.head, ll_pre.nodes)

\* C19: insert_at_head makes a new node holding the value the head, with the
\* previous head as its successor: the values are the value followed by the
\* previous values, and the count is the previous count plus one.
C19_InsertHead ==
    LRan("insert_at_head") =>
        /\ head # 0
        /\ head \notin DOMAIN ll_pre.nodes
        /\ nodes[head] = ListNode(ll_op.value, ll_pre.head)
        /\ \A i \in DOMAIN ll_pre.nodes : i \in DOMAIN nodes /\ nodes[i] = ll_pre.nodes[i]
        /\ list_values(head, nodes) = <<ll_op.value>> \o PreValues
        /\ count_label = Len(PreValues) + 1
        /\ count_label = Len(list_values(head, nodes))

\* C19 case: a value was inserted at the head of a list of two other values.
C19_Witness ==
    /\ LRan("insert_at_head")
    /\ Len(PreValues) = 2
    /\ ll_op.value \notin SeqRange(PreValues)

\* C20: delete_from_head on an empty list ends in an error and leaves the
\* list empty; on a non-empty list it removes the first node, reports that
\* node's value and leaves the other nodes as they were, in order.
C20_DeleteHead ==
    ll_op.name = "delete_from_head" =>
        /\ ll_pre.head = 0 =>
              /\ ll_op.status = "empty"
              /\ head = 0
              /\ nodes = NoNodes
        /\ ll_pre.head # 0 =>
              /\ ll_op.status = "ok"
              /\ ll_out = <<ll_pre.nodes[ll_pre.head].data>>
              /\ head = ll_pre.nodes[ll_pre.head].next
              /\ ll_pre.head \notin DOMAIN nodes
              /\ \A i \in DOMAIN ll_pre.nodes \ {ll_pre.head} :
                    i \in DOMAIN nodes /\ nodes[i] = ll_pre.nodes[i]
              /\ list_values(head, nodes) = Tail(PreValues)

\* C20 case: delete_from_head ran on the empty list.
C20_Witness ==
    /\ ll_op.name = "delete_from_head"
    /\ ll_op.status = "empty"
    /\ ll_pre.head = 0
    /\ head = 0

\* the values before position n of q
Prefix(q, n) == [i \in 1..n |-> q[i]]
NowValues == list_values(head, nodes)

\* C21: delete_from_tail on an empty list ends in an error and leaves the
\* list empty; on a one-node list it leaves the empty list and reports that
\* node's value; on a longer list it removes the last node only, reports its
\* value and leaves the nodes before it in order.
C21_DeleteTail ==
    ll_op.name = "delete_from_tail" =>
        /\ ll_pre.head = 0 =>
              /\ ll_op.status = "empty"
              /\ head = 0
              /\ nodes = NoNodes
        /\ Len(PreValues) = 1 =>
              /\ ll_op.status = "ok"
              /\ head = 0
              /\ nodes = NoNodes
              /\ ll_out = <<ll_pre.nodes[ll_pre.head].data>>
        /\ Len(PreValues) >= 2 =>
              /\ ll_op.status = "ok"
              /\ head = ll_pre.head
              /\ NowValues = Prefix(PreValues, Len(PreValues) - 1)
              /\ ll_out = <<PreValues[Len(PreValues)]>>
              /\ \A i \in DOMAIN nodes :
                    /\ i \in DOMAIN ll_pre.nodes
                    /\ nodes[i].data = ll_pre.nodes[i].data
                    /\ nodes[i].next # 0 => nodes[i].next = ll_pre.nodes[i].next
              /\ Cardinality(DOMAIN nodes) = Cardinality(DOMAIN ll_pre.nodes) - 1

\* C21 case: delete_from_tail ran on a list of three nodes whose last value
\* differs from the first.
C21_Witness ==
    /\ LRan("delete_from_tail")
    /\ Len(PreValues) = 3
    /\ PreValues[3] # PreValues[1]

\* C22: search_node reports the 0-indexed position of the first node from
\* the head that holds the value, reports not found exactly when no node
\* holds it, and leaves the list as it was.
C22_SearchFirst ==
    (ll_op.name = "search_node" /\ ll_op.status # "ValueError") =>
        /\ head = ll_pre.head
        /\ nodes = ll_pre.nodes
        /\ ll_op.value \notin SeqRange(NowValues) <=> ll_op.status = "not_found"
        /\ ll_op.value \in SeqRange(NowValues) =>
              /\ ll_op.status = "found"
              /\ Len(ll_out) = 1
              /\ NowValues[ll_out[1] + 1] = ll_op.value
              /\ \A i \in 1..ll_out[1] : NowValues[i] # ll_op.value

\* C22 case: the value searched is held by the second and the third node.
C22_Witness ==
    /\ ll_op.name = "search_node"
    /\ ll_op.status = "found"
    /\ ll_out = <<1>>
    /\ Len(NowValues) = 3
    /\ NowValues[3] = ll_op.value

\* C23: reverse_display reports the values in tail-to-head order, the exact
\* reverse of the head-to-tail order, and leaves head and every node's data
\* and next as they were.
C23_ReverseDisplay ==
    ll_op.name = "reverse_display" =>
        /\ Len(ll_out) = Len(NowValues)
        /\ \A i \in 1..Len(ll_out) : ll_out[i] = NowValues[Len(NowValues) + 1 - i]
        /\ head = ll_pre.head
        /\ nodes = ll_pre.nodes

\* C23 case: reverse_display ran on three nodes whose first and last values
\* differ.
C23_Witness ==
    /\ LRan("reverse_display")
    /\ Len(NowValues) = 3
    /\ NowValues[1] # NowValues[3]

\* the reference k steps of next away from h (0 past the end)
RECURSIVE After(_, _, _)
After(h, ns, k) ==
    IF k = 0 \/ h = 0 THEN h ELSE After(ns[h].next, ns, k - 1)

\* C24: the list is acyclic: following next from head reaches None after
\* visiting each node at most once.
C24_Acyclic ==
    \E k \in 0..Cardinality(DOMAIN nodes) :
        /\ After(head, nodes, k) = 0
        /\ \A i, j \in 0..(k - 1) :
              After(head, nodes, i) = After(head, nodes, j) => i = j

\* C24 case: an insert_at_head filled the list after nodes had been removed
\* from both ends.
C24_Witness ==
    /\ LRan("insert_at_head")
    /\ Cardinality(DOMAIN nodes) = MaxNodes
    /\ head # MaxNodes
    /\ nodes[head].next # head - 1

\* ---- the traversals ----

GTraversed(name) == g_op.name = name /\ g_op.status = "ok"
Min(S) == CHOOSE x \in S : \A y \in S : x <= y
Max(S) == CHOOSE x \in S : \A y \in S : y <= x
\* the vertices before position k of r
Seen(r, k) == {r[j] : j \in 1..(k - 1)}
\* v has an edge to a vertex outside seen
HasUnseen(es, v, seen) ==
    \E i \in 1..Len(es) : es[i][1] = v /\ es[i][2] \notin seen
\* the dest of the first edge in the list that leaves v for a vertex outside seen
FirstUnseen(es, v, seen) ==
    LET i == Min({j \in 1..Len(es) : es[j][1] = v /\ es[j][2] \notin seen})
    IN  es[i][2]
\* the positions before k whose vertex still has an edge to an unseen vertex
Frontier(es, r, k) == {m \in 1..(k - 1) : HasUnseen(es, r[m], Seen(r, k))}
\* r is the breadth-first order from start: every vertex after the first is
\* the first unseen out-neighbour of the earliest listed vertex that has one,
\* and the list stops only when no listed vertex has one
IsBfsOrder(es, start, r) ==
    /\ Len(r) >= 1
    /\ r[1] = start
    /\ \A k \in 2..Len(r) :
          /\ Frontier(es, r, k) # {}
          /\ r[k] = FirstUnseen(es, r[Min(Frontier(es, r, k))], Seen(r, k))
    /\ Frontier(es, r, Len(r) + 1) = {}
\* r is the depth-first pre-order from start: every vertex after the first is
\* the first unseen out-neighbour of the latest listed vertex that has one
IsDfsOrder(es, start, r) ==
    /\ Len(r) >= 1
    /\ r[1] = start
    /\ \A k \in 2..Len(r) :
          /\ Frontier(es, r, k) # {}
          /\ r[k] = FirstUnseen(es, r[Max(Frontier(es, r, k))], Seen(r, k))
    /\ Frontier(es, r, Len(r) + 1) = {}
ExampleEdges == <<<<0, 1, 5>>, <<1, 2, 3>>, <<0, 2, 1>>>>
OnExample(name) ==
    /\ GTraversed(name)
    /\ num_vertices = 3
    /\ edges = ExampleEdges
    /\ g_op.src = 0

\* C16: bfs_traversal lists the vertices in FIFO breadth-first order, the
\* out-neighbours of a vertex taken in edge-insertion order; on 3 vertices
\* with edges (0,1,5),(1,2,3),(0,2,1) added in that order, from 0 it lists
\* 0, 1, 2.
C16_BfsOrder ==
    /\ GTraversed("bfs_traversal") =>
          IsBfsOrder(edges, g_op.src, traversal_path)
    /\ OnExample("bfs_traversal") => traversal_path = <<0, 1, 2>>

\* C16 case: bfs_traversal ran from 0 on the example graph.
C16_Witness == OnExample("bfs_traversal") /\ Len(traversal_path) = 3

\* C17: dfs_traversal lists the vertices in depth-first pre-order, the
\* out-neighbours of a vertex taken in edge-insertion order and visited ones
\* skipped; on the same example, from 0 it lists 0, 1, 2.
C17_DfsOrder ==
    /\ GTraversed("dfs_traversal") =>
          IsDfsOrder(edges, g_op.src, traversal_path)
    /\ OnExample("dfs_traversal") => traversal_path = <<0, 1, 2>>

\* C17 case: dfs_traversal ran from 0 on the example graph.
C17_Witness == OnExample("dfs_traversal") /\ Len(traversal_path) = 3

\* the vertices one directed edge away from a vertex of S
Successors(es, S) == {es[i][2] : i \in {j \in 1..Len(es) : es[j][1] \in S}}
RECURSIVE Closure(_, _)
Closure(es, S) ==
    IF Successors(es, S) \subseteq S THEN S
    ELSE Closure(es, S \cup Successors(es, S))
Reachable(es, start) == Closure(es, {start})

\* C18: the list bfs_traversal or dfs_traversal builds holds exactly the
\* vertices reachable from start along directed edges, each once, and the
\* handler leaves the vertex count and the edges as they were.
C18_TraversalReachable ==
    (GTraversed("bfs_traversal") \/ GTraversed("dfs_traversal")) =>
        /\ SeqRange(traversal_path) = Reachable(edges, g_op.src)
        /\ NoRepeat(traversal_path)
        /\ GUnchanged

\* C18 case: a traversal ran from a vertex on a cycle, with an edge into the
\* cycle from a vertex that the start does not reach.
C18_Witness ==
    /\ GTraversed("bfs_traversal") \/ GTraversed("dfs_traversal")
    /\ Len(traversal_path) >= 2
    /\ \E i \in 1..Len(edges) :
          /\ edges[i][1] \notin SeqRange(traversal_path)
          /\ edges[i][2] \in SeqRange(traversal_path)
    /\ \E i \in 1..Len(edges) : edges[i][2] = g_op.src /\ edges[i][1] # g_op.src

-----------------------------------------------------------------------------
\* bfs_traversal and dfs_traversal one loop iteration at a time.  run holds
\* the locals of the handler that is running: visited (the indices that hold
\* True), queue, traversal_order, and for dfs_util the call stack, a frame
\* being <<vertex, position of the for loop in adj_list[vertex]>>.

Idle ==
    [pc |-> "idle", start |-> 0, visited |-> {}, queue |-> <<>>,
     stack |-> <<>>, traversal_order |-> <<>>]

Running == run.pc \in {"bfs", "dfs"}

\* a step inside a handler assigns no attribute and draws nothing
StepFrame ==
    /\ UNCHANGED <<num_vertices, edges, g_op, g_pre, g_chain, traversal_path,
                   g_canvas, _redraw_pending, after_queue>>
    /\ UNCHANGED <<bst_vars, list_vars>>
    /\ SameWindow

\* askinteger returned start; "visited[start] = True; queue = [start]"
bfs_start ==
    /\ ~Running
    /\ num_vertices > 0
    /\ \E start \in 0..(num_vertices - 1) :
          run' = [pc |-> "bfs", start |-> start, visited |-> {start},
                  queue |-> <<start>>, stack |-> <<>>,
                  traversal_order |-> <<>>]
    /\ StepFrame

\* one iteration of "while queue:"
bfs_step ==
    /\ run.pc = "bfs"
    /\ run.queue # <<>>
    /\ LET vertex == Head(run.queue)
           s == bfs_enqueue(adj_list(num_vertices, edges)[vertex],
                            run.visited, Tail(run.queue))
       IN  run' = [run EXCEPT !.visited = s.visited,
                              !.queue = s.queue,
                              !.traversal_order = Append(@, vertex)]
    /\ StepFrame

\* the queue is empty: the handler stores the order and redraws
bfs_finish ==
    /\ run.pc = "bfs"
    /\ run.queue = <<>>
    /\ Stored("bfs_traversal", run.start, run.traversal_order)
    /\ run' = [run EXCEPT !.pc = "done"]

\* dfs_util(vertex) up to its for loop
dfs_enter(r, vertex) ==
    [r EXCEPT !.visited = @ \cup {vertex},
              !.traversal_order = Append(@, vertex),
              !.stack = Append(@, <<vertex, 1>>)]

\* askinteger returned start; "dfs_util(start)"
dfs_start ==
    /\ ~Running
    /\ num_vertices > 0
    /\ \E start \in 0..(num_vertices - 1) :
          run' = dfs_enter([Idle EXCEPT !.pc = "dfs", !.start = start], start)
    /\ StepFrame

\* one iteration of the for loop of the innermost dfs_util, or its return
dfs_step ==
    /\ run.pc = "dfs"
    /\ run.stack # <<>>
    /\ LET depth == Len(run.stack)
           vertex == run.stack[depth][1]
           i == run.stack[depth][2]
           nbs == adj_list(num_vertices, edges)[vertex]
       IN  IF i > Len(nbs)
           THEN run' = [run EXCEPT !.stack = SubSeq(@, 1, depth - 1)]
           ELSE LET advanced == [run EXCEPT !.stack[depth] = <<vertex, i + 1>>]
                IN  run' = IF nbs[i] \in run.visited
                           THEN advanced
                           ELSE dfs_enter(advanced, nbs[i])
    /\ StepFrame

\* dfs_util(start) returned: the handler stores the order and redraws
dfs_finish ==
    /\ run.pc = "dfs"
    /\ run.stack = <<>>
    /\ Stored("dfs_traversal", run.start, run.traversal_order)
    /\ run' = [run EXCEPT !.pc = "done"]

RunSteps == bfs_step \/ bfs_finish \/ dfs_step \/ dfs_finish

HasSelfLoop == \E i \in 1..Len(edges) : edges[i][1] = edges[i][2]
HasParallelEdges ==
    \E i, j \in 1..Len(edges) :
        i # j /\ edges[i][1] = edges[j][1] /\ edges[i][2] = edges[j][2]

\* C29: bfs and dfs started at any valid vertex of any graph, with cycles,
\* self-loops and several edges on a pair, expand each vertex at most once
\* (no vertex is appended twice to traversal_order) and always complete.
C29_Terminates ==
    /\ [](NoRepeat(run.traversal_order)
          /\ Len(run.traversal_order) <= num_vertices)
    /\ (Running ~> run.pc = "done")

C29_Witness ==
    /\ run.pc = "done"
    /\ HasSelfLoop
    /\ HasParallelEdges
    /\ Len(run.traversal_order) = num_vertices
    /\ num_vertices > 1
    /\ traversal_path = run.traversal_order

-----------------------------------------------------------------------------
\* The views: refresh_view of each tab called by itself, and the resize of
\* the window.

bst_refresh_view ==
    /\ BstRefreshed(root)
    /\ UNCHANGED <<root, bst_op, bst_pre, bst_out, bst_count, bst_found,
                   bst_ins, bst_ins_only, bst_chain>>
    /\ UNCHANGED <<graph_vars, list_vars, canvas_size>>
    /\ redraw' = [tab |-> "bst", again |-> redraw.tab = "bst"]

ll_refresh_view ==
    /\ Responsive
    /\ ListRefreshed(head, nodes)
    /\ UNCHANGED <<head, nodes, count_label, ll_op, ll_pre, ll_out>>
    /\ UNCHANGED <<bst_vars, graph_vars, canvas_size>>
    /\ redraw' = [tab |-> "list", again |-> redraw.tab = "list"]

g_refresh_view ==
    /\ GraphRefreshed(num_vertices, edges)
    /\ UNCHANGED <<num_vertices, edges, g_op, g_pre, g_chain, traversal_path,
                   _redraw_pending, after_queue, run>>
    /\ UNCHANGED <<bst_vars, list_vars, canvas_size>>
    /\ redraw' = [tab |-> "graph", again |-> redraw.tab = "graph"]

\* the event on_canvas_configure is called with
NoEvent == <<>>
\* the <Configure> binding: "lambda e: self.on_canvas_configure()"
configure_binding(e) == NoEvent

on_canvas_configure(event) ==
    IF num_vertices > 0 /\ ~_redraw_pending /\ event # NoEvent
    THEN LET new_width == event[1]
             new_height == event[2]
         IN  IF new_width > 10 /\ new_height > 10
             THEN /\ _redraw_pending' = TRUE
                  /\ after_queue' = after_queue + 1
             ELSE UNCHANGED <<_redraw_pending, after_queue>>
    ELSE UNCHANGED <<_redraw_pending, after_queue>>

\* the window is resized and Tk delivers <Configure> to the graph canvas
canvas_configure ==
    \E size \in Sizes :
        /\ canvas_size' = size
        /\ on_canvas_configure(configure_binding(size))
        /\ g_op' = GOp("canvas_configure", size[1], size[2], 0, "ok")
        /\ g_pre' = GPre
        /\ g_chain' = <<>>
        /\ UNCHANGED <<num_vertices, edges, traversal_path, g_canvas, run>>
        /\ UNCHANGED <<bst_vars, list_vars>>
        /\ redraw' = NoRedraw

\* the callback canvas.after was given runs
_delayed_redraw ==
    /\ after_queue > 0
    /\ after_queue' = after_queue - 1
    /\ _redraw_pending' = FALSE
    /\ IF num_vertices > 0
       THEN GraphRefreshed(num_vertices, edges)
       ELSE UNCHANGED g_canvas
    /\ g_op' = GOp("_delayed_redraw", 0, 0, 0, "ok")
    /\ g_pre' = GPre
    /\ g_chain' = <<>>
    /\ UNCHANGED <<num_vertices, edges, traversal_path, run>>
    /\ UNCHANGED <<bst_vars, list_vars>>
    /\ SameWindow

-----------------------------------------------------------------------------
\* Properties of the views.

CallX(c) == c.at[1]
CallY(c) == c.at[2]
CallXOffset(c) == c.at[3]
CallYOffset(c) == c.at[4]
CallDepth(c) == c.at[5]

BstRedrawn == redraw.tab = "bst"

\* C25: after refresh_view of the BST tab, at any canvas width, the
\* horizontal offset of the draw_tree calls at depth d+1 is the offset at
\* depth d divided by 2 and strictly smaller than it, and the vertical
\* offset is the same at every depth.
C25_OffsetsDecrease ==
    BstRedrawn =>
        \A i, j \in 1..Len(bst_calls) :
            CallDepth(bst_calls[j]) = CallDepth(bst_calls[i]) + 1 =>
                /\ CallXOffset(bst_calls[j]) = CallXOffset(bst_calls[i]) \div 2
                /\ CallXOffset(bst_calls[j]) < CallXOffset(bst_calls[i])
                /\ CallYOffset(bst_calls[j]) = CallYOffset(bst_calls[i])

\* C26: after refresh_view of the BST tab, for every tree and canvas
\* width, no two nodes of the tree are drawn at the same (x, y).
C26_NoOverlap ==
    BstRedrawn =>
        \A i, j \in 1..Len(bst_calls) :
            i # j => <<CallX(bst_calls[i]), CallY(bst_calls[i])>>
                     # <<CallX(bst_calls[j]), CallY(bst_calls[j])>>

\* C27: refresh_view of the BST, list and graph tabs changes none of root,
\* head, the list nodes, num_vertices and edges, and a second call in a row
\* leaves on each canvas exactly the items of the first.
C27_RefreshIdempotent ==
    [][/\ redraw'.tab # "" =>
              UNCHANGED <<root, head, nodes, num_vertices, edges>>
       /\ redraw'.again =>
              UNCHANGED <<bst_canvas, ll_canvas, g_canvas>>]_vars

C27_Witness ==
    /\ redraw.again
    /\ redraw.tab = "graph"
    /\ num_vertices > 1
    /\ Len(edges) > 1
    /\ Len(g_canvas) = Len(edges) + 2 * num_vertices

GConfigured == g_op.name = "canvas_configure"

\* C30: when the graph canvas is resized to a width and height above 10
\* while a graph exists and no redraw is pending, a delayed redraw is
\* scheduled: _redraw_pending is set and the callback is queued.
C30_ResizeSchedulesRedraw ==
    (/\ GConfigured
     /\ g_op.src > 10
     /\ g_op.dest > 10
     /\ g_pre.num_vertices > 0
     /\ ~g_pre.pending) =>
        (_redraw_pending /\ after_queue > 0)

-----------------------------------------------------------------------------
BstInit ==
    /\ root = None
    /\ bst_op = BstOp("init", 0, "ok")
    /\ bst_pre = None
    /\ bst_out = <<>>
    /\ bst_count = 0
    /\ bst_found = FALSE
    /\ bst_ins = {}
    /\ bst_ins_only = TRUE
    /\ bst_chain = <<>>
    /\ bst_canvas = <<>>
    /\ bst_calls = <<>>

GraphInit ==
    /\ num_vertices = 0
    /\ edges = <<>>
    /\ _redraw_pending = FALSE
    /\ after_queue = 0
    /\ run = Idle
    /\ g_op = GOp("init", 0, 0, 0, "ok")
    /\ g_pre = GPre
    /\ g_chain = <<>>
    /\ traversal_path = <<>>
    /\ g_canvas = <<>>

ListInit ==
    /\ head = 0
    /\ nodes = NoNodes
    /\ count_label = 0
    /\ ll_op = [name |-> "init", value |-> 0, status |-> "ok"]
    /\ ll_pre = LPre
    /\ ll_out = <<>>
    /\ ll_canvas = <<>>

WindowInit ==
    /\ canvas_size = UnmappedSize
    /\ redraw = NoRedraw

Init == BstInit /\ GraphInit /\ ListInit /\ WindowInit

\* The edge lists add_edge can have built on n vertices with the weights of
\* TravWeights: in-range endpoints, no tuple stored twice.
TravEdgeLists(n) ==
    LET V == 0..(n - 1)
        lists(k) == {[i \in 1..k |-> <<p[i][1], p[i][2], TravWeights[i]>>] :
                        p \in [1..k -> V \X V]}
    IN  {es \in UNION {lists(k) : k \in 0..Len(TravWeights)} :
            \A i, j \in 1..Len(es) : es[i] = es[j] => i = j}

\* The graph tab after a graph was built and before any traversal ran.
TraversalInit ==
    /\ BstInit
    /\ ListInit
    /\ WindowInit
    /\ num_vertices \in 0..TravVertices
    /\ edges \in TravEdgeLists(num_vertices)
    /\ _redraw_pending = FALSE
    /\ after_queue = 0
    /\ run = Idle
    /\ g_op = GOp("init", 0, 0, 0, "ok")
    /\ g_pre = GPre
    /\ g_chain = <<>>
    /\ traversal_path = <<>>
    /\ g_canvas = IF num_vertices = 0 THEN <<>>
                  ELSE g_draw(num_vertices, edges, canvas_size)

RECURSIVE TreesOn(_)
\* the trees insert_node can have built that hold exactly the values of S
TreesOn(S) ==
    IF S = {} THEN {None}
    ELSE UNION {{<<v, l, r>> : l \in TreesOn({x \in S : x < v}),
                               r \in TreesOn({x \in S : x > v})} : v \in S}

\* the lists insert_at_head can have built: values, head first
ListsOf == UNION {[1..k -> ListValues] : k \in 0..MaxNodes}
\* the nodes of such a list: the last value was inserted first
NodesOf(vs) ==
    [i \in 1..Len(vs) |-> ListNode(vs[Len(vs) - i + 1], i - 1)]

\* One tab holds a structure its handlers built and shows it; the window
\* has any of the sizes.
LayoutInit ==
    /\ canvas_size \in Sizes \cup {UnmappedSize}
    /\ redraw = NoRedraw
    /\ \/ /\ root \in UNION {TreesOn(S) : S \in SUBSET Values}
          /\ bst_op = BstOp("init", 0, "ok")
          /\ bst_pre = None
          /\ bst_out = <<>>
          /\ bst_count = 0
          /\ bst_found = FALSE
          /\ bst_ins = SubtreeValues(root)
          /\ bst_ins_only = TRUE
          /\ bst_chain = <<>>
          /\ bst_canvas = IF root = None THEN <<>>
                          ELSE SelectSeq(bst_draw(root, canvas_size), IsDrawn)
          /\ bst_calls = SelectSeq(bst_draw(root, canvas_size), IsCall)
          /\ GraphInit
          /\ ListInit
       \/ /\ \E vs \in ListsOf \ {<<>>} :
                /\ head = Len(vs)
                /\ nodes = NodesOf(vs)
                /\ count_label = Len(vs)
          /\ ll_op = [name |-> "init", value |-> 0, status |-> "ok"]
          /\ ll_pre = LPre
          /\ ll_out = <<>>
          /\ ll_canvas = ll_draw(head, nodes, canvas_size)
          /\ BstInit
          /\ GraphInit
       \/ /\ num_vertices \in 1..MaxVertices
          /\ edges \in TravEdgeLists(num_vertices)
          /\ _redraw_pending = FALSE
          /\ after_queue = 0
          /\ run = Idle
          /\ g_op = GOp("init", 0, 0, 0, "ok")
          /\ g_pre = GPre
          /\ g_chain = <<>>
          /\ traversal_path = <<>>
          /\ g_canvas = g_draw(num_vertices, edges, canvas_size)
          /\ BstInit
          /\ ListInit

\* The graph tab after a graph was built, no traversal running.
StepInit ==
    /\ BstInit
    /\ ListInit
    /\ WindowInit
    /\ num_vertices \in 1..StepVertices
    /\ edges \in TravEdgeLists(num_vertices)
    /\ _redraw_pending = FALSE
    /\ after_queue = 0
    /\ run = Idle
    /\ g_op = GOp("init", 0, 0, 0, "ok")
    /\ g_pre = GPre
    /\ g_chain = <<>>
    /\ traversal_path = <<>>
    /\ g_canvas = g_draw(num_vertices, edges, canvas_size)

NextBST ==
    \/ insert_node
    \/ delete_node
    \/ search_node
    \/ clear_tree
    \/ preorder_traversal
    \/ inorder_traversal
    \/ postorder_traversal
    \/ count_nodes
    \/ count_one_child
    \/ count_two_children
    \/ count_common_parent

NextGraph ==
    \/ create_graph
    \/ add_edge
    \/ remove_edge
    \/ clear_graph

NextTraversal ==
    \/ bfs_traversal
    \/ dfs_traversal

NextList ==
    \/ insert_at_head
    \/ delete_from_head
    \/ delete_from_tail
    \/ search_node_list
    \/ count_nodes_list
    \/ reverse_display
    \/ clear_list

NextSteps ==
    \/ bfs_start
    \/ bfs_step
    \/ bfs_finish
    \/ dfs_start
    \/ dfs_step
    \/ dfs_finish

NextLayout ==
    \/ bst_refresh_view
    \/ ll_refresh_view
    \/ g_refresh_view
    \/ canvas_configure

Next ==
    \/ NextBST
    \/ NextGraph
    \/ NextTraversal
    \/ NextList
    \/ NextLayout
    \/ NextSteps
    \/ _delayed_redraw

\* The tabs share no state: a tab's properties are checked on the behaviours
\* of its own handlers.
SpecBST == Init /\ [][NextBST]_vars
SpecGraph == Init /\ [][NextGraph]_vars
SpecList == Init /\ [][NextList]_vars
\* bfs_traversal and dfs_traversal read num_vertices and edges and write
\* neither: they are checked from every graph add_edge can have built within
\* the bounds.
SpecTraversal == TraversalInit /\ [][NextTraversal]_vars
\* refresh_view and the resize read the structures and write none: they are
\* checked from every structure the handlers can have built within the
\* bounds.
SpecLayout == LayoutInit /\ [][NextLayout]_vars
\* A handler runs to its end on the event loop's thread: a loop iteration
\* that can be taken is taken.
SpecTraversalSteps == StepInit /\ [][NextSteps]_vars /\ WF_vars(RunSteps)
Spec == Init /\ [][Next]_vars

====
